---------------------------- MODULE Spec2Model ----------------------------
(***************************************************************************)
(* A model of the aggregation logic of energy.py: the time-of-day          *)
(* arithmetic (time_add, time_list, time_span), the table of tracked       *)
(* periods (period_setting), the tariff aggregation of class Product       *)
(* (load_30_minute_prices, plot_30_minute_prices) and the yield            *)
(* aggregation of class Solcast (__init__).                                *)
(*                                                                         *)
(* Representation.                                                         *)
(*  - A 4 character time string "HHMM" is the tuple of its four digits,    *)
(*    so that the slicing t[:2], t[-2:], the conversion int() and the      *)
(*    formatting f"{h:02d}{m:02d}" are modelled by what they do.           *)
(*  - Python's None is the empty tuple where a time string or a JSON       *)
(*    value is expected (a JSON value v that may be null is the tuple      *)
(*    <<v>>), and the string "None" where a label or a colour is expected. *)
(*    An attribute that was never assigned holds None.                     *)
(*  - A dict is a function; a key that is absent is outside its DOMAIN.    *)
(*  - A calendar date "YYYY-MM-DD" is a natural number: the order of the   *)
(*    ISO strings that sorted() uses is the order of the numbers.          *)
(*  - A float is the rational it stands for, kept as a reduced fraction    *)
(*    <<numerator, denominator>>.                                          *)
(*  - An exception that leaves a method is recorded by its Python name in  *)
(*    the outcome variable of that method; "hang" records a loop that      *)
(*    never ends.                                                          *)
(***************************************************************************)
EXTENDS Integers, Sequences, FiniteSets, TLC

VARIABLES
    \* two calls of time_add, the second undoing the first
    ta_pc, ta_t, ta_n, ta_r, ta_back,
    \* the module-level dict tracked (its keys kept in insertion order)
    tracked, tracked_keys, n_settings,
    \* the last call of period_setting, time_list or time_span: its arguments,
    \* the dict tracked or the entry it found, and what it returned
    call,
    \* class Product
    loaded, prices, product_keys, dates, is_agile,
    plot_days, averages, slot_min, slot_max, period_avg, plot_outcome,
    \* the dict tracked as it was when plot_30_minute_prices last ran
    plot_tracked,
    \* class Solcast
    data, requested_days, daily, rids, solcast_keys, solcast_days, total, avg,
    solcast_outcome

time_vars == <<ta_pc, ta_t, ta_n, ta_r, ta_back>>
period_vars == <<tracked, tracked_keys, n_settings, call>>
product_vars == <<loaded, prices, product_keys, dates, is_agile,
                  plot_days, averages, slot_min, slot_max, period_avg, plot_outcome,
                  plot_tracked>>
solcast_vars == <<data, requested_days, daily, rids, solcast_keys, solcast_days,
                  total, avg, solcast_outcome>>
vars == <<time_vars, period_vars, product_vars, solcast_vars>>

-----------------------------------------------------------------------------
(* Bounds of the model *)

\* deltas of time_add reach MaxWraps whole days beyond a residue below one day
MaxWraps == 2
\* number of period_setting calls in one behaviour
MaxSettings == 1
\* number of calendar dates in a price response
MaxPriceDates == 2
\* number of samples in the free yield data sets
MaxSamples == 2
\* number of calendar dates in the ranged yield data sets
MaxRangeDates == 7
\* largest value of the parameter days of Solcast()
MaxDays == 3

-----------------------------------------------------------------------------
(* Python values *)

None == <<>>
NoneStr == "None"

Range(s) == {s[i] : i \in DOMAIN s}

\* d with d[k] = v, the key created if absent
SetKey(d, k, v) == (k :> v) @@ d

EmptyDict == [x \in {} |-> 0]

\* the dict with the entries of f, built entry by entry
Dict(f) == f @@ EmptyDict

c_float(n) == IF n = None THEN 0 ELSE n[1]

-----------------------------------------------------------------------------
(* Time strings *)

Digits == 0 .. 9

\* f"{h:02d}{m:02d}"
Format02d(h, m) == <<h \div 10, h % 10, m \div 10, m % 10>>

\* int(t[:2]) and int(t[-2:])
IntHead(t) == 10 * t[1] + t[2]
IntTail(t) == 10 * t[3] + t[4]
\* c_int(t) of a whole time string
c_int(t) == 1000 * t[1] + 100 * t[2] + 10 * t[3] + t[4]

\* the valid times of day, HH in 00..23 and MM in 00..59
ValidTimes == {Format02d(h, m) : h \in 0 .. 23, m \in 0 .. 59}

\* minutes since midnight of a time string, and back
Minutes(t) == 60 * (10 * t[1] + t[2]) + (10 * t[3] + t[4])
HHMM(k) == Format02d(k \div 60, k % 60)

Abs(x) == IF x < 0 THEN -x ELSE x

\* one round of the loops of lines 73-78 on the pair <<h, m>>; a pair for which
\* neither loop condition holds is left as it is
MinuteRound(hm) ==
    IF hm[2] > 59 THEN <<hm[1] + 1, hm[2] - 60>>
    ELSE IF hm[2] < 0 THEN <<hm[1] - 1, hm[2] + 60>>
    ELSE hm

RECURSIVE MinuteRounds(_, _)
\* k rounds: the first k \div 2 of them, then the others from the pair reached
MinuteRounds(hm, k) ==
    IF k = 0 THEN hm
    ELSE IF k = 1 THEN MinuteRound(hm)
    ELSE CHOOSE r \in {MinuteRounds(mid, k - (k \div 2)) :
                          mid \in {MinuteRounds(hm, k \div 2)}} : TRUE

\* The loops of lines 73-78 run to their end.  A round moves m by 60 towards
\* 0 .. 59, so the loops end within Abs(m) \div 60 + 1 rounds.
MinuteLoop(h, m) == MinuteRounds(<<h, m>>, (Abs(m) \div 60) + 1)

\* one round of the loops of lines 79-82
HourRound(h) ==
    IF h > 23 THEN h - 24
    ELSE IF h < 0 THEN h + 24
    ELSE h

RECURSIVE HourRounds(_, _)
HourRounds(h, k) ==
    IF k = 0 THEN h
    ELSE IF k = 1 THEN HourRound(h)
    ELSE CHOOSE r \in {HourRounds(mid, k - (k \div 2)) :
                          mid \in {HourRounds(h, k \div 2)}} : TRUE

\* The loops of lines 79-82 run to their end, within Abs(h) \div 24 + 1 rounds.
HourLoop(h) == HourRounds(h, (Abs(h) \div 24) + 1)

time_add_wrong_carry(t, n) ==
    LET hm == MinuteLoop(IntHead(t), IntTail(t) + n)
    IN  Format02d(HourLoop(IntHead(t)), hm[2])

time_add(t, n) ==
    LET hm == MinuteLoop(IntHead(t), IntTail(t) + n)
    IN  Format02d(HourLoop(hm[1]), hm[2])

-----------------------------------------------------------------------------
(* The tracked periods *)

Night == "night"
Am == "am"
Pm == "pm"
Peak == "peak"

\* the dict of lines 48-53
tracked_default ==
    [p \in {Night, Am, Pm, Peak} |->
        CASE p = Night -> [start |-> Format02d(1, 30), end |-> Format02d(5, 0),
                           label |-> "Night off peak", color |-> "green"]
          [] p = Am    -> [start |-> Format02d(6, 0), end |-> Format02d(10, 0),
                           label |-> "Morning peak", color |-> "orange"]
          [] p = Pm    -> [start |-> Format02d(12, 30), end |-> Format02d(15, 0),
                           label |-> "Afternoon off peak", color |-> "grey"]
          [] p = Peak  -> [start |-> Format02d(16, 0), end |-> Format02d(19, 0),
                           label |-> "Evening peak", color |-> "red"]]

tracked_default_keys == <<Night, Am, Pm, Peak>>

\* tracked[t][k] = v when v is given
SetField(tr, t, k, v, none) ==
    IF v = none THEN tr ELSE SetKey(tr, t, SetKey(tr[t], k, v))

period_setting_replace(tr, t, start, end, label, color) ==
    LET d0 == SetKey(tr, t, EmptyDict)
        d1 == SetField(d0, t, "start", start, None)
        d2 == SetField(d1, t, "end", end, None)
        d3 == SetField(d2, t, "label", label, NoneStr)
        d4 == SetField(d3, t, "color", color, NoneStr)
    IN  d4

\* the dict tracked after period_setting(t, start, end, label, color)
period_setting_dict(tr, t, start, end, label, color) ==
    LET d0 == IF t \notin DOMAIN tr THEN SetKey(tr, t, EmptyDict) ELSE tr
        d1 == SetField(d0, t, "start", start, None)
        d2 == SetField(d1, t, "end", end, None)
        d3 == SetField(d2, t, "label", label, NoneStr)
        d4 == SetField(d3, t, "color", color, NoneStr)
    IN  d4

Returned(v) == [kind |-> "returned", value |-> v]
Raised(e) == [kind |-> e, value |-> None]

\* One round of the loop of lines 93-95 on the loop's state: the test of line
\* 93, which ends the loop when start = end, and the body.  start is the whole
\* control state of the loop: when an addition gives a value that is already
\* in the list and is not end, the loop repeats its states for ever ("hang").
time_list_round(st, end) ==
    IF st.kind # "running" THEN st
    ELSE IF st.start = end THEN [st EXCEPT !.kind = "returned"]
    ELSE LET s == time_add(st.start, 30)
         IN  IF s # end /\ s \in Range(st.new) THEN [st EXCEPT !.kind = "hang"]
             ELSE [start |-> s, new |-> Append(st.new, s), kind |-> "running"]

RECURSIVE time_list_rounds(_, _, _)
\* k rounds: the first k \div 2 of them, then the others from the state reached
time_list_rounds(st, end, k) ==
    IF k = 0 THEN st
    ELSE IF k = 1 THEN time_list_round(st, end)
    ELSE CHOOSE r \in {time_list_rounds(mid, end, k - (k \div 2)) :
                          mid \in {time_list_rounds(st, end, k \div 2)}} : TRUE

\* The loop of lines 93-95.  The additions of 30 minutes to a time of day give
\* at most 48 values, so 49 rounds end the loop or find it repeating.
time_list_loop(start, end, new) ==
    LET st == time_list_rounds([start |-> start, new |-> new, kind |-> "running"],
                               end, ((24 * 60) \div 30) + 1)
    IN  [kind |-> st.kind, value |-> IF st.kind = "returned" THEN st.new ELSE None]

\* time_list(p) with the dict tracked being tr; a returned None is Returned(None)
time_list_in(tr, p) ==
    IF "start" \notin DOMAIN tr[p] \/ "end" \notin DOMAIN tr[p]
    THEN Raised("KeyError")
    ELSE LET start == tr[p]["start"]
             end == tr[p]["end"]
         IN  IF c_int(start) > c_int(end)
             THEN IF "label" \notin DOMAIN tr[p] THEN Raised("KeyError")
                  ELSE Returned(None)
             ELSE time_list_loop(start, end, <<start>>)

time_list(p) == time_list_in(tracked, p)

time_span_30(tr, t) ==
    IF "start" \notin DOMAIN tr[t] \/ "end" \notin DOMAIN tr[t]
    THEN Raised("KeyError")
    ELSE Returned(<<tr[t]["start"], time_add(tr[t]["end"], -30)>>)

\* time_span(t); the string f"{start} to {end}" is the pair <<start, end>>
time_span_in(tr, t) ==
    IF "start" \notin DOMAIN tr[t] \/ "end" \notin DOMAIN tr[t]
    THEN Raised("KeyError")
    ELSE Returned(<<tr[t]["start"], time_add(tr[t]["end"], -1)>>)

time_span(t) == time_span_in(tracked, t)

-----------------------------------------------------------------------------
(* Floats as reduced fractions *)

RECURSIVE GCD(_, _)
GCD(a, b) == IF b = 0 THEN a ELSE GCD(b, a % b)

\* n / d for d > 0
Frac(n, d) == LET g == GCD(Abs(n), d) IN <<n \div g, d \div g>>

FracOfInt(n) == <<n, 1>>
FracAdd(x, y) == Frac(x[1] * y[2] + y[1] * x[2], x[2] * y[2])
FracDivInt(x, k) == Frac(x[1], x[2] * k)

RECURSIVE SumSeq(_)
\* sum(l) of a list of numbers
SumSeq(l) == IF l = <<>> THEN 0 ELSE Head(l) + SumSeq(Tail(l))

RECURSIVE FracSumRange(_, _, _)
\* v[lo] + ... + v[hi]: the sum of the first half plus the sum of the second
FracSumRange(v, lo, hi) ==
    IF lo > hi THEN FracOfInt(0)
    ELSE IF lo = hi THEN FracAdd(FracOfInt(0), v[lo])
    ELSE CHOOSE r \in {FracAdd(a, b) :
                          a \in {FracSumRange(v, lo, (lo + hi) \div 2)},
                          b \in {FracSumRange(v, ((lo + hi) \div 2) + 1, hi)}} : TRUE

\* sum(v) of a list of floats
FracSum(v) == FracSumRange(v, 1, Len(v))

MinSeq(l) == CHOOSE x \in Range(l) : \A y \in Range(l) : x <= y
MaxSeq(l) == CHOOSE x \in Range(l) : \A y \in Range(l) : x >= y

\* sorted(S) for a set S whose order is that of key(x), a function with
\* distinct values: the i-th element has i - 1 elements before it
SortedBy(S, key) ==
    LET rank == Dict([x \in S |-> Cardinality({y \in S : key[y] < key[x]})])
    IN  [i \in 1 .. Cardinality(S) |-> CHOOSE x \in S : rank[x] = i - 1]

\* sorted() of a set of time strings: the order of strings of four digits
SortedTimes(S) == SortedBy(S, [t \in S |-> c_int(t)])
\* sorted() of a set of dates, and sorted(reverse=True)
SortedDates(S) == SortedBy(S, [d \in S |-> d])
SortedDatesReverse(S) == SortedBy(S, [d \in S |-> -d])

\* l[:n] for n >= 0, and l[1:-1]
Prefix(l, n) == SubSeq(l, 1, IF n < Len(l) THEN n ELSE Len(l))
Inner(l) == SubSeq(l, 2, Len(l) - 1)

-----------------------------------------------------------------------------
(* The state after construction *)

TimeIdle ==
    /\ ta_pc = "idle"
    /\ ta_t = Format02d(0, 0)
    /\ ta_n = 0
    /\ ta_r = None
    /\ ta_back = None

NoCall == [op |-> "none", p |-> "none", period |-> EmptyDict,
           result |-> Returned(None)]

PeriodsInit ==
    /\ tracked = tracked_default
    /\ tracked_keys = tracked_default_keys
    /\ n_settings = 0
    /\ call = NoCall

ProductInit ==
    /\ loaded = FALSE
    /\ prices = EmptyDict
    /\ product_keys = <<>>
    /\ dates = <<>>
    /\ is_agile = FALSE
    /\ plot_days = 0
    /\ averages = EmptyDict
    /\ slot_min = EmptyDict
    /\ slot_max = EmptyDict
    /\ period_avg = EmptyDict
    /\ plot_outcome = "none"
    /\ plot_tracked = EmptyDict

SolcastInit ==
    /\ data = EmptyDict
    /\ requested_days = 0
    /\ daily = EmptyDict
    /\ rids = <<>>
    /\ solcast_keys = <<>>
    /\ solcast_days = 0
    /\ total = FracOfInt(0)
    /\ avg = None
    /\ solcast_outcome = "none"

-----------------------------------------------------------------------------
(* Time arithmetic: time_add applied to a time and a delta, then undone *)

MinutesPerDay == 24 * 60

DeltaResidues == {0, 1, 29, 30, 31, 59, 60, 61, 720, 1380, 1439}

Deltas ==
    {sign * (a * MinutesPerDay + b) :
        sign \in {-1, 1}, a \in 0 .. MaxWraps, b \in DeltaResidues}

InitTime ==
    /\ ta_pc = "start"
    /\ ta_t \in ValidTimes
    /\ ta_n \in Deltas
    /\ ta_r = None
    /\ ta_back = None
    /\ PeriodsInit /\ ProductInit /\ SolcastInit

TimeAddCall ==
    /\ ta_pc = "start"
    /\ ta_r' = time_add(ta_t, ta_n)
    /\ ta_pc' = "added"
    /\ UNCHANGED <<ta_t, ta_n, ta_back, period_vars, product_vars, solcast_vars>>

TimeAddBack ==
    /\ ta_pc = "added"
    /\ ta_back' = time_add(ta_r, -ta_n)
    /\ ta_pc' = "back"
    /\ UNCHANGED <<ta_t, ta_n, ta_r, period_vars, product_vars, solcast_vars>>

NextTime == TimeAddCall \/ TimeAddBack

SpecTime == InitTime /\ [][NextTime]_vars

\* C1: for every valid time of day t and every integer delta d, time_add(t, d)
\* is the HHMM form of (minutes(t) + d) mod 1440, and time_add(time_add(t, d), -d)
\* is t again.
C1_TimeAddCycle ==
    /\ ta_pc \in {"added", "back"} =>
            ta_r = HHMM((Minutes(ta_t) + ta_n) % MinutesPerDay)
    /\ ta_pc = "back" => ta_back = ta_t

\* a delta of more than a day backwards, crossing midnight, undone
C1_Witness ==
    /\ ta_pc = "back"
    /\ ta_n < -MinutesPerDay
    /\ ta_t = Format02d(0, 10)
    /\ ta_r = Format02d(23, 11)
    /\ ta_back = ta_t

-----------------------------------------------------------------------------
(* The table of tracked periods: period_setting, and calls of time_list and
   time_span on the periods it holds *)

Extra == "extra"
SettingNames == {Night, Extra}
SettingTimes == {Format02d(0, 0), Format02d(1, 0), Format02d(1, 15), Format02d(2, 0)}
SettingLabels == {"Label"}
SettingColors == {"blue"}

period_setting(t, start, end, label, color) ==
    /\ n_settings < MaxSettings
    /\ tracked' = period_setting_dict(tracked, t, start, end, label, color)
    /\ tracked_keys' = IF t \in DOMAIN tracked THEN tracked_keys
                       ELSE Append(tracked_keys, t)
    /\ n_settings' = n_settings + 1
    /\ call' = [op |-> "period_setting", p |-> t,
                period |-> IF t \in DOMAIN tracked THEN tracked[t] ELSE EmptyDict,
                result |-> Returned(None),
                args |-> [start |-> start, end |-> end, label |-> label, color |-> color],
                before |-> tracked]
    /\ UNCHANGED <<time_vars, product_vars, solcast_vars>>

\* call keeps the entry of the period as it was when the call was made
call_time_list(p) ==
    /\ p \in DOMAIN tracked
    /\ call' = [op |-> "time_list", p |-> p, period |-> tracked[p],
                result |-> time_list(p)]
    /\ UNCHANGED <<tracked, tracked_keys, n_settings,
                   time_vars, product_vars, solcast_vars>>

call_time_span(t) ==
    /\ t \in DOMAIN tracked
    /\ call' = [op |-> "time_span", p |-> t, period |-> tracked[t],
                result |-> time_span(t)]
    /\ UNCHANGED <<tracked, tracked_keys, n_settings,
                   time_vars, product_vars, solcast_vars>>

Setting ==
    \E t \in SettingNames,
       start \in SettingTimes \cup {None}, end \in SettingTimes \cup {None},
       label \in SettingLabels \cup {NoneStr}, color \in SettingColors \cup {NoneStr} :
        period_setting(t, start, end, label, color)

InitPeriods ==
    TimeIdle /\ PeriodsInit /\ ProductInit /\ SolcastInit

NextPeriods ==
    \/ Setting
    \/ \E p \in DOMAIN tracked : call_time_list(p)
    \/ \E t \in DOMAIN tracked : call_time_span(t)

SpecPeriods == InitPeriods /\ [][NextPeriods]_vars

HasTimes(period) == "start" \in DOMAIN period /\ "end" \in DOMAIN period

OnGrid(t) == Minutes(t) % 30 = 0

\* the list start, start+30, ..., end
IsSlotList(l, start, end) ==
    /\ Len(l) = (Minutes(end) - Minutes(start)) \div 30 + 1
    /\ l[1] = start
    /\ l[Len(l)] = end
    /\ \A i \in 1 .. Len(l) - 1 : Minutes(l[i + 1]) = Minutes(l[i]) + 30

\* C2: for every registered period whose start <= end, time_list returns the
\* ordered list start, start+30, ..., end: first element start, last element
\* end, consecutive elements 30 minutes apart, (end - start)/30 + 1 elements.
C2_TimeListInclusive ==
    (/\ call.op = "time_list"
     /\ HasTimes(call.period)
     /\ c_int(call.period["start"]) <= c_int(call.period["end"]))
    => /\ call.result.kind = "returned"
       /\ call.result.value # None
       /\ IsSlotList(call.result.value, call.period["start"], call.period["end"])

\* what does hold of time_list: the same, for the periods whose end is a whole
\* number of 30 minute slots after their start
C2_TimeListOnGrid ==
    (/\ call.op = "time_list"
     /\ HasTimes(call.period)
     /\ c_int(call.period["start"]) <= c_int(call.period["end"])
     /\ (Minutes(call.period["end"]) - Minutes(call.period["start"])) % 30 = 0)
    => /\ call.result.kind = "returned"
       /\ call.result.value # None
       /\ IsSlotList(call.result.value, call.period["start"], call.period["end"])

\* C3 as stated: the displayed end of time_span is one 30 minute slot before
\* the configured end, time_add(end, -30).
C3_SpanEndsOneSlotBefore ==
    (call.op = "time_span" /\ HasTimes(call.period))
    => /\ call.result.kind = "returned"
       /\ call.result.value[2] = time_add(call.period["end"], -30)

\* C3 as amended: time_span displays the configured start and the minute before
\* the configured end, (minutes(end) - 1) mod 1440 in HHMM form.
C3_SpanEndsOneMinuteBefore ==
    (call.op = "time_span" /\ HasTimes(call.period))
    => /\ call.result.kind = "returned"
       /\ call.result.value[1] = call.period["start"]
       /\ call.result.value[2] =
              HHMM((Minutes(call.period["end"]) - 1) % MinutesPerDay)

\* the span of a period set to end at midnight is displayed to end at 2359
C3_Witness ==
    /\ call.op = "time_span"
    /\ call.p = Extra
    /\ HasTimes(call.period)
    /\ call.period["end"] = Format02d(0, 0)
    /\ call.result = Returned(<<call.period["start"], Format02d(23, 59)>>)

\* C14: time_list terminates for every period that period_setting can register
\* with start <= end, the periods whose start or end is off the 30 minute grid
\* included: the loop that adds 30 minutes reaches end and the list is returned.
C14_TimeListTerminates ==
    (/\ call.op = "time_list"
     /\ HasTimes(call.period)
     /\ c_int(call.period["start"]) <= c_int(call.period["end"]))
    => /\ call.result.kind # "hang"
       /\ call.result.kind = "returned" => call.result.value # None

\* the fields of an entry of tracked, and whether a call passed the field k
Fields == {"start", "end", "label", "color"}
Passed(args, k) == IF k \in {"start", "end"} THEN args[k] # None ELSE args[k] # NoneStr

\* C11: period_setting creates the named entry if it is absent and changes only
\* the fields that are passed: after each call a passed field has the value
\* passed, every other field of the entry is as it was before the call (absent
\* if it was absent), and the entry of no other period is changed.
C11_SettingFrame ==
    call.op = "period_setting" =>
        /\ DOMAIN tracked = DOMAIN call.before \cup {call.p}
        /\ \A p \in DOMAIN call.before \ {call.p} : tracked[p] = call.before[p]
        /\ DOMAIN tracked[call.p] \subseteq Fields
        /\ \A k \in Fields :
              IF Passed(call.args, k)
              THEN k \in DOMAIN tracked[call.p] /\ tracked[call.p][k] = call.args[k]
              ELSE IF k \in DOMAIN call.period
              THEN k \in DOMAIN tracked[call.p] /\ tracked[call.p][k] = call.period[k]
              ELSE k \notin DOMAIN tracked[call.p]
        /\ Range(tracked_keys) = DOMAIN tracked
        /\ Len(tracked_keys) = Cardinality(DOMAIN tracked)

\* the start and the label of night are set: its end and its colour stay, and
\* so do the other periods
C11_Witness ==
    /\ call.op = "period_setting"
    /\ call.p = Night
    /\ call.args = [start |-> Format02d(1, 0), end |-> None,
                    label |-> "Label", color |-> NoneStr]
    /\ tracked[Night] = [start |-> Format02d(1, 0), end |-> Format02d(5, 0),
                         label |-> "Label", color |-> "green"]
    /\ tracked[Am] = tracked_default[Am]

-----------------------------------------------------------------------------
(* class Product: load_30_minute_prices and plot_30_minute_prices *)

\* the number of keys of a table with half hourly prices (line 337)
SlotsPerDay == 48

\* the 48 half hours of a day in their order, and the single slot of a flat
\* rate product
GridSlots == [i \in 1 .. 48 |-> HHMM(30 * (i - 1))]
FlatSlots == <<Format02d(0, 0)>>

\* value_inc_vat of the record of a slot on a date; one record carries null
RawPrice(t, d) ==
    IF t = Format02d(23, 0) /\ d = 1 THEN None
    ELSE <<10 * d + ((Minutes(t) \div 30) % 4)>>

\* The results of a price response: one record for each of the dates n .. 1,
\* newest first, and each slot of order, but for the slot hole on the dates holes.  The
\* string valid_from is kept as its two slices, s[:10] and s[11:16] less ':'.
PriceResults(order, n, hole, holes) ==
    LET k == Len(order)
        all == [i \in 1 .. n * k |->
                   LET d == n - (i - 1) \div k
                       t == order[((i - 1) % k) + 1]
                   IN  [day |-> d, hour |-> t, value_inc_vat |-> RawPrice(t, d)]]
    IN  SelectSeq(all, LAMBDA r : ~(r.hour = hole /\ r.day \in holes))

HoleSlots == {Format02d(0, 0), Format02d(2, 0)}

\* the responses of the model: a full grid or a flat rate, on 1 .. n dates,
\* whole or with one slot missing on the newest or on the oldest date
PriceResponses ==
    {PriceResults(GridSlots, n, hole, {IF newest THEN n ELSE 1}) :
        n \in 1 .. MaxPriceDates, hole \in HoleSlots \cup {None}, newest \in BOOLEAN}
    \cup {PriceResults(FlatSlots, n, None, {}) : n \in 1 .. MaxPriceDates}

\* The dict self.prices after the loop of lines 327-334: a key for each hour
\* of a record, under it a key for each day of a record of that hour, and
\* the value of the last such record, which overwrites the earlier ones.
LoadLoop(results) ==
    LET hours == {results[i].hour : i \in DOMAIN results}
        at(h, d) == {j \in DOMAIN results : results[j].hour = h /\ results[j].day = d}
        last(h, d) == CHOOSE i \in at(h, d) : \A j \in at(h, d) : j <= i
        days(h) == {results[i].day : i \in {j \in DOMAIN results : results[j].hour = h}}
    IN  [h \in hours |->
            [d \in days(h) |-> c_float(results[last(h, d)].value_inc_vat)]]

IsAgileAtMost(ks) == Len(ks) <= SlotsPerDay

\* line 337: the table has half hourly prices when it has exactly 48 keys
IsAgile(ks) == Len(ks) = SlotsPerDay

load_30_minute_prices(results) ==
    LET table == LoadLoop(results)
        ks == SortedTimes(DOMAIN table)
    IN  /\ ~loaded
        /\ results # <<>>
        /\ prices' = table
        /\ product_keys' = ks
        /\ dates' = SortedDatesReverse(DOMAIN table[ks[1]])
        /\ is_agile' = IsAgile(ks)
        /\ loaded' = TRUE
        /\ UNCHANGED <<plot_days, averages, slot_min, slot_max, period_avg,
                       plot_outcome, plot_tracked,
                       time_vars, period_vars, solcast_vars>>

\* the list l of lines 353-359 for the slot t and the parameter days
SlotValues(t, days) ==
    LET window == Prefix(dates, days)
        present == SelectSeq(window, LAMBDA d : d \in DOMAIN prices[t])
    IN  [i \in 1 .. Len(present) |-> prices[t][present[i]]]

\* One round of the loop of lines 368-370, for the period p whose time_list(p)
\* is tl, av being self.averages and pa self.period_avg: the dict it leaves and
\* how it ends.
PeriodRound(p, tl, av, pa) ==
    IF tl.kind # "returned" THEN [outcome |-> tl.kind, period_avg |-> pa]
    ELSE IF tl.value = None THEN [outcome |-> "TypeError", period_avg |-> pa]
    ELSE LET ks == SubSeq(tl.value, 1, Len(tl.value) - 1)
         IN  IF \E j \in DOMAIN ks : ks[j] \notin DOMAIN av
             THEN [outcome |-> "KeyError", period_avg |-> pa]
             ELSE IF Len(ks) = 0
             THEN [outcome |-> "ZeroDivisionError", period_avg |-> pa]
             ELSE LET v == [j \in DOMAIN ks |-> av[ks[j]]]
                  IN  [outcome |-> "ok",
                       period_avg |-> SetKey(pa, p, FracDivInt(FracSum(v), Len(v)))]

\* The loop of lines 368-370 over the tracked periods in their order, av being
\* self.averages: the rounds before the first one that raises set their
\* averages, and that round ends the loop.
PeriodLoop(av) ==
    LET n == Len(tracked_keys)
        round == Dict([i \in 1 .. n |->
                          PeriodRound(tracked_keys[i], time_list(tracked_keys[i]),
                                      av, EmptyDict)])
        raising == {i \in 1 .. n : round[i].outcome # "ok"}
        first == IF raising = {} THEN n + 1
                 ELSE CHOOSE i \in raising : \A j \in raising : i <= j
    IN  [outcome |-> IF first > n THEN "ok" ELSE round[first].outcome,
         period_avg |-> Dict([p \in {tracked_keys[i] : i \in 1 .. first - 1} |->
                                 LET i == CHOOSE j \in 1 .. n : tracked_keys[j] = p
                                 IN  round[i].period_avg[p]])]

\* the largest window of lines 345-346
MaxWindow == 31

\* self.averages, self.min and self.max of lines 352-364 for the window days,
\* the lists self.avg, self.min and self.max kept as dicts by slot
SlotStatistics(days) ==
    LET l == Dict([t \in Range(product_keys) |-> SlotValues(t, days)])
        present == {t \in Range(product_keys) : Len(l[t]) > 0}
    IN  [averages |-> Dict([t \in present |-> Frac(SumSeq(l[t]), Len(l[t]))]),
         min |-> Dict([t \in present |-> MinSeq(l[t])]),
         max |-> Dict([t \in present |-> MaxSeq(l[t])])]

plot_30_minute_prices(days_arg) ==
    /\ loaded
    /\ IF ~is_agile
       THEN /\ plot_outcome' = "not available"
            /\ UNCHANGED <<plot_days, averages, slot_min, slot_max, period_avg,
                           plot_tracked>>
       ELSE LET days == IF days_arg > MaxWindow THEN MaxWindow ELSE days_arg
            IN  \E stats \in {SlotStatistics(days)} :
                \E loop \in {PeriodLoop(stats.averages)} :
                    /\ plot_days' = days
                    /\ averages' = stats.averages
                    /\ slot_min' = stats.min
                    /\ slot_max' = stats.max
                    /\ period_avg' = loop.period_avg
                    /\ plot_tracked' = tracked
                    \* line 371 reads self.dates[self.days-1]
                    /\ plot_outcome' = IF loop.outcome = "ok" /\ days > Len(dates)
                                       THEN "IndexError" ELSE loop.outcome
    /\ UNCHANGED <<loaded, prices, product_keys, dates, is_agile,
                   time_vars, period_vars, solcast_vars>>

PlotDays == (1 .. MaxPriceDates) \cup {MaxWindow + 1}

InitTariff ==
    TimeIdle /\ PeriodsInit /\ ProductInit /\ SolcastInit

\* the aggregation reads the times of the periods and, for a period that
\* starts after its end, its label: one call of period_setting adds the period
\* 'extra' with any of its fields passed or left out, which gives every entry
\* that further calls on the period can give.  The prices are loaded by the
\* constructor (line 257) and the aggregation reads tracked as it is when it
\* runs: the setting is made before the product is constructed.
TariffSetting ==
    /\ ~loaded
    /\ Extra \notin DOMAIN tracked
    /\ \E start \in SettingTimes \cup {None}, end \in SettingTimes \cup {None},
          label \in SettingLabels \cup {NoneStr} :
            period_setting(Extra, start, end, label, NoneStr)

NextTariff ==
    \/ TariffSetting
    \/ ~loaded /\ \E results \in PriceResponses : load_30_minute_prices(results)
    \/ loaded /\ \E days \in PlotDays : plot_30_minute_prices(days)

SpecTariff == InitTariff /\ [][NextTariff]_vars

-----------------------------------------------------------------------------
(* The tariff aggregation and the periods *)

\* plot_30_minute_prices has run on a table of half hourly prices
Aggregated == plot_outcome \notin {"none", "not available"}

\* it went through all the periods (line 371 may still fail on the title)
Completed == plot_outcome \in {"ok", "IndexError"}

\* every period has its times and its label
WellFormed(tr) == \A p \in DOMAIN tr : HasTimes(tr[p]) /\ "label" \in DOMAIN tr[p]

\* C4: a registered period with start = end expands to exactly one slot and,
\* when the aggregation runs on a full table, the average of the period is the
\* average of the slot start; the aggregation does not fail on a division by zero.
C4_SingleSlotPeriod ==
    \A p \in DOMAIN plot_tracked :
        (/\ Aggregated
         /\ HasTimes(plot_tracked[p])
         /\ plot_tracked[p]["start"] = plot_tracked[p]["end"])
        => /\ time_list_in(plot_tracked, p) = Returned(<<plot_tracked[p]["start"]>>)
           /\ plot_outcome # "ZeroDivisionError"
           /\ Completed =>
                  /\ p \in DOMAIN period_avg
                  /\ plot_tracked[p]["start"] \in DOMAIN averages
                  /\ period_avg[p] = averages[plot_tracked[p]["start"]]

\* C5: a period whose start is after its end is rejected with an error of its
\* own: an aggregation that runs while such a period is registered does not
\* crash on it and leaves no average for it.
C5_InvalidPeriodRejected ==
    \A p \in DOMAIN plot_tracked :
        (/\ Aggregated
         /\ HasTimes(plot_tracked[p])
         /\ c_int(plot_tracked[p]["start"]) > c_int(plot_tracked[p]["end"]))
        => /\ plot_outcome # "TypeError"
           /\ Completed => p \notin DOMAIN period_avg

\* the slots of the period p that the aggregation averages, time_list(p)[:-1]
PeriodSlots(tr, p) ==
    LET tl == time_list_in(tr, p).value IN SubSeq(tl, 1, Len(tl) - 1)

\* the period p has its slot list, and a slot of it has no average
MissesSlot(tr, p) ==
    /\ time_list_in(tr, p).kind = "returned"
    /\ time_list_in(tr, p).value # None
    /\ \E t \in Range(PeriodSlots(tr, p)) : t \notin DOMAIN averages

\* the mean of the averages of the slots of p that have one
MeanOfPresent(tr, p) ==
    LET ks == SelectSeq(PeriodSlots(tr, p), LAMBDA t : t \in DOMAIN averages)
        v == [j \in DOMAIN ks |-> averages[ks[j]]]
    IN  FracDivInt(FracSum(v), Len(v))

\* C6: a slot with no value on any date of the window has no statistics, and
\* a period whose slots include it still gets its average, over the slots that
\* are present; the missing slot does not abort the aggregation.
C6_MissingSlotSkipped ==
    (Aggregated /\ WellFormed(plot_tracked))
    => /\ \A t \in Range(product_keys) :
              (\A d \in Range(Prefix(dates, plot_days)) : d \notin DOMAIN prices[t])
              => t \notin DOMAIN averages
       /\ \A p \in DOMAIN plot_tracked :
              MissesSlot(plot_tracked, p)
              => /\ plot_outcome # "KeyError"
                 /\ Completed =>
                        /\ p \in DOMAIN period_avg
                        /\ period_avg[p] = MeanOfPresent(plot_tracked, p)

\* C13: when the loaded price table has fewer than 48 time slots the product is
\* not flagged as half hourly, plot_30_minute_prices reports 'not available'
\* and leaves no slot statistics and no period averages; period averages are
\* computed only for a table of exactly 48 slots.
C13_PartialGridSkipped ==
    /\ (loaded /\ Len(product_keys) < SlotsPerDay)
       => /\ ~is_agile
          /\ plot_outcome \in {"none", "not available"}
          /\ averages = EmptyDict /\ slot_min = EmptyDict /\ slot_max = EmptyDict
          /\ period_avg = EmptyDict
    /\ (averages # EmptyDict \/ period_avg # EmptyDict)
       => Len(product_keys) = SlotsPerDay

\* a table of 47 slots, one slot of the grid missing, was loaded and the plot
\* was asked for
C13_Witness ==
    /\ loaded
    /\ Len(product_keys) = SlotsPerDay - 1
    /\ plot_outcome = "not available"
    /\ averages = EmptyDict
    /\ period_avg = EmptyDict

\* the calendar dates present anywhere in the price table, most recent first
AllPriceDates == SortedDatesReverse(UNION {DOMAIN prices[t] : t \in DOMAIN prices})

\* the statistics of every slot are those of its values on the dates of window:
\* a slot with no value on them has none
StatisticsOver(window) ==
    \A t \in Range(product_keys) :
        LET present == SelectSeq(window, LAMBDA d : d \in DOMAIN prices[t])
            l == [i \in DOMAIN present |-> prices[t][present[i]]]
        IN  IF Len(l) = 0
            THEN t \notin DOMAIN averages
            ELSE /\ t \in DOMAIN averages
                 /\ averages[t] = Frac(SumSeq(l), Len(l))
                 /\ slot_min[t] = MinSeq(l)
                 /\ slot_max[t] = MaxSeq(l)

\* C12: the window of the aggregation is the `days` (at most 31) most recent
\* calendar dates present anywhere in the price table, and the average, the
\* minimum and the maximum of each slot are taken over exactly the dates of the
\* window that have a value for the slot.
C12_WindowOfAllDates ==
    Aggregated =>
        /\ plot_days <= MaxWindow
        /\ StatisticsOver(Prefix(AllPriceDates, plot_days))

\* what does hold: the same over the most recent dates of the first slot of the
\* table, the list self.dates of line 336
C12_WindowOfFirstSlot ==
    Aggregated =>
        /\ plot_days <= MaxWindow
        /\ dates = SortedDatesReverse(DOMAIN prices[product_keys[1]])
        /\ StatisticsOver(Prefix(dates, plot_days))

-----------------------------------------------------------------------------
(* class Solcast: the yield aggregation of __init__ *)

data_sets_reversed == <<"estimated_actuals", "forecasts">>

\* line 453
data_sets == <<"forecasts", "estimated_actuals">>

\* the resource ids, in the order of the keys of self.data[t]
RidOrder == <<"r1", "r2">>

\* daily after a sample that is always counted
AggregateSampleNoDedup(dl, t, rid, f) ==
    LET date == f.date
        time == f.time
        d1 == IF date \notin DOMAIN dl
              THEN SetKey(dl, date, [forecast |-> (t = "forecasts"), kwh |-> FracOfInt(0)])
              ELSE dl
        d2 == IF rid \notin DOMAIN d1[date]
              THEN SetKey(d1, date, SetKey(d1[date], rid, <<>>))
              ELSE d1
        kwh == FracAdd(d2[date]["kwh"], Frac(c_float(f.pv_estimate), 2))
    IN  SetKey(d2, date,
               SetKey(SetKey(d2[date], "kwh", kwh), rid, Append(d2[date][rid], time)))

\* The body of the loop of lines 481-493: self.daily after the sample f of the
\* data set t and the site rid.  period_end is kept as its two slices,
\* period_end[:10] and period_end[11:16].
AggregateSample(dl, t, rid, f) ==
    LET date == f.date
        time == f.time
        d1 == IF date \notin DOMAIN dl
              THEN SetKey(dl, date, [forecast |-> (t = "forecasts"), kwh |-> FracOfInt(0)])
              ELSE dl
        d2 == IF rid \notin DOMAIN d1[date]
              THEN SetKey(d1, date, SetKey(d1[date], rid, <<>>))
              ELSE d1
        kwh == FracAdd(d2[date]["kwh"], Frac(c_float(f.pv_estimate), 2))
    IN  IF time \notin Range(d2[date][rid])
        THEN SetKey(d2, date,
                    SetKey(SetKey(d2[date], "kwh", kwh), rid, Append(d2[date][rid], time)))
        ELSE d2

RECURSIVE Visits(_, _, _)
\* The samples in the order in which the loops of lines 477-481 visit them,
\* from the j-th site of the i-th data set on, each with its data set and site;
\* a site whose list is None is passed over (line 479).
Visits(d, i, j) ==
    IF i > Len(data_sets) THEN <<>>
    ELSE IF j > Len(RidOrder) THEN Visits(d, i + 1, 1)
    ELSE LET t == data_sets[i]
             rid == RidOrder[j]
             mine == IF d[t][rid] = None THEN <<>>
                     ELSE [k \in DOMAIN d[t][rid][1] |->
                              [t |-> t, rid |-> rid, f |-> d[t][rid][1][k]]]
         IN  mine \o Visits(d, i, j + 1)

RECURSIVE SiteLoop(_, _, _)
\* self.rids after the loops of lines 477-480, from the j-th site of the i-th
\* data set on
SiteLoop(d, i, j) ==
    IF i > Len(data_sets) THEN <<>>
    ELSE IF j > Len(RidOrder) THEN SiteLoop(d, i + 1, 1)
    ELSE (IF d[data_sets[i]][RidOrder[j]] = None THEN <<>> ELSE <<RidOrder[j]>>)
         \o SiteLoop(d, i, j + 1)

RECURSIVE SampleLoop(_, _, _, _)
\* self.daily after the samples v[lo] .. v[hi] taken in their order, from dl
\* (lines 481-493): the rounds of the first half of the range, then, from the
\* dictionary they leave, the rounds of the second half
SampleLoop(v, lo, hi, dl) ==
    IF lo > hi THEN dl
    ELSE IF lo = hi THEN AggregateSample(dl, v[lo].t, v[lo].rid, v[lo].f)
    ELSE CHOOSE r \in {SampleLoop(v, ((lo + hi) \div 2) + 1, hi, left) :
                          left \in {SampleLoop(v, lo, (lo + hi) \div 2, dl)}} : TRUE

\* self.daily after the loops of lines 477-493 on the data d
Daily(d) ==
    CHOOSE r \in {SampleLoop(v, 1, Len(v), EmptyDict) : v \in {Visits(d, 1, 1)}} : TRUE

TrimLoopToDays(ks, days) ==
    LET RECURSIVE trim(_)
        trim(l) == IF Len(l) > days THEN trim(Inner(l)) ELSE l
    IN  trim(ks)

\* the loop of lines 498-500
TrimLoop(ks, days) ==
    LET RECURSIVE trim(_)
        trim(l) == IF Len(l) > 2 * days THEN trim(Inner(l)) ELSE l
    IN  trim(ks)

ValuesOfAllDates(dl, ks) ==
    LET all == SortedDates(DOMAIN dl) IN [i \in DOMAIN all |-> dl[all[i]]["kwh"]]

\* line 501
Values(dl, ks) == [i \in DOMAIN ks |-> dl[ks[i]]["kwh"]]

\* Solcast(days) on the data d, from line 475 on; days is not negative (the
\* loop of line 498 does not end for a negative days)
Solcast__init__(d, days) ==
    /\ solcast_outcome = "none"
    /\ days >= 0
    /\ \E dl \in {Daily(d)} :
       \E ks \in {TrimLoop(Inner(SortedDates(DOMAIN dl)), days)} :
       \E sum \in {FracSum(Values(dl, ks))} :
            /\ data' = d
            /\ requested_days' = days
            /\ daily' = dl
            /\ rids' = SiteLoop(d, 1, 1)
            /\ solcast_keys' = ks
            /\ solcast_days' = Len(ks)
            /\ total' = sum
            /\ avg' = IF Len(ks) > 0 THEN FracDivInt(sum, Len(ks)) ELSE avg
            /\ solcast_outcome' = "ok"
    /\ UNCHANGED <<time_vars, period_vars, product_vars>>

\* the default of the parameter days (line 448)
DefaultDays == 7

\* the dates and the half hours of the free samples, period_end[:10] and
\* period_end[11:16]
SampleDates == {1, 2}
SampleTimes == {"00:30", "01:00"}

\* pv_estimate of a sample: null or a number of kW
SamplePv == {None, <<3>>}

Sample(date, time, pv) == [date |-> date, time |-> time, pv_estimate |-> pv]

\* a sample together with the data set and the site it is a sample of
TaggedSamples ==
    {[t |-> t, rid |-> rid, f |-> Sample(date, time, pv)] :
        t \in Range(data_sets), rid \in Range(RidOrder),
        date \in SampleDates, time \in SampleTimes, pv \in SamplePv}

SeqsUpTo(S, n) == UNION {[1 .. k -> S] : k \in 0 .. n}

\* the free data: the samples of a sequence, each in the list of its data set
\* and site, in the order of the sequence
FreeData(tagged) ==
    [t \in Range(data_sets) |->
        [rid \in Range(RidOrder) |->
            LET mine == SelectSeq(tagged, LAMBDA x : x.t = t /\ x.rid = rid)
            IN  <<[i \in DOMAIN mine |-> mine[i].f]>>]]

\* The ranged data: the estimated actuals cover the dates 1 .. a and the
\* forecasts the dates b .. n, every half hour of SampleTimes on each date, for
\* the site r1 and, when both is true, for r2 (whose lists are null otherwise).
RangedList(t, rid, from, to) ==
    LET times == <<"00:30", "01:00">>
        k == Len(times)
    IN  [i \in 1 .. (to - from + 1) * k |->
            LET date == from + (i - 1) \div k
            IN  Sample(date, times[((i - 1) % k) + 1],
                       <<date + (IF t = "forecasts" THEN 1 ELSE 0)>>)]

RangedData(n, a, b, both) ==
    [t \in Range(data_sets) |->
        [rid \in Range(RidOrder) |->
            IF rid = "r2" /\ ~both THEN None
            ELSE IF t = "forecasts" THEN <<RangedList(t, rid, b, n)>>
            ELSE <<RangedList(t, rid, 1, a)>>]]

FreeResponse ==
    \E tagged \in SeqsUpTo(TaggedSamples, MaxSamples) :
        Solcast__init__(FreeData(tagged), DefaultDays)

RangedResponse ==
    \E n \in 1 .. MaxRangeDates, both \in BOOLEAN, days \in 0 .. MaxDays :
        \E a \in 0 .. n, b \in 1 .. n + 1 :
            Solcast__init__(RangedData(n, a, b, both), days)

InitYield ==
    TimeIdle /\ PeriodsInit /\ ProductInit /\ SolcastInit

NextYield == FreeResponse \/ RangedResponse

SpecYield == InitYield /\ [][NextYield]_vars

-----------------------------------------------------------------------------
(* The yield aggregation and its input *)

Aggregation == solcast_outcome # "none"

\* the places of the samples of the data: <<i, j, k>> is the k-th sample of the
\* j-th site of the i-th data set, and the places are read in this order
Places ==
    {x \in (DOMAIN data_sets) \X (DOMAIN RidOrder) \X (1 .. 2 * MaxRangeDates) :
        /\ data[data_sets[x[1]]][RidOrder[x[2]]] # None
        /\ x[3] <= Len(data[data_sets[x[1]]][RidOrder[x[2]]][1])}

At(x) == data[data_sets[x[1]]][RidOrder[x[2]]][1][x[3]]

Earlier(x, y) ==
    \/ x[1] < y[1]
    \/ x[1] = y[1] /\ x[2] < y[2]
    \/ x[1] = y[1] /\ x[2] = y[2] /\ x[3] < y[3]

\* the same site and the same half hour of the same date
SameSlot(x, y) ==
    x[2] = y[2] /\ At(x).date = At(y).date /\ At(x).time = At(y).time

\* the places of the first sample of each site and half hour of a date
FirstPlaces(date) ==
    {x \in Places :
        /\ At(x).date = date
        /\ ~\E y \in Places : SameSlot(x, y) /\ Earlier(y, x)}

RECURSIVE KwhOf(_)
\* the kWh of the samples at a set of places, half the kW of each
KwhOf(P) ==
    IF P = {} THEN FracOfInt(0)
    ELSE LET x == CHOOSE x \in P : TRUE
         IN  FracAdd(Frac(c_float(At(x).pv_estimate), 2), KwhOf(P \ {x}))

\* C7: on every date a pair (site, time) counts once in the kWh of the date,
\* whatever the order and the number of the samples of the two data sets: the
\* kWh of a date are those of the first sample of each pair, and a sample that
\* is in both data sets counts as it does when it is in one.
C7_SlotCountedOnce ==
    Aggregation =>
        /\ DOMAIN daily = {At(x).date : x \in Places}
        /\ \A date \in DOMAIN daily : daily[date]["kwh"] = KwhOf(FirstPlaces(date))

\* the same sample of 3 kW is a forecast and an estimated actual of r1, and the
\* date has 1.5 kWh
C7_Witness ==
    /\ Aggregation
    /\ data["forecasts"]["r1"] = <<<<Sample(1, "00:30", <<3>>)>>>>
    /\ data["estimated_actuals"]["r1"] = <<<<Sample(1, "00:30", <<3>>)>>>>
    /\ daily[1]["kwh"] = Frac(3, 2)

\* the sorted dates of the daily table
AllDates == SortedDates(DOMAIN daily)

\* C8 as stated: the dates that are retained are no more than the days asked for.
C8_RetainsAtMostDays ==
    Aggregation => Len(solcast_keys) <= requested_days

\* C8 as amended: after the first and the last date are dropped, one date is
\* dropped from each end for as long as more than 2 * days dates remain: the
\* retained dates are a middle part of the sorted dates, at most 2 * days of
\* them, and nothing is dropped from a list of at most 2 * days dates.
C8_RetainsAtMostTwiceDays ==
    Aggregation =>
        /\ Len(solcast_keys) <= 2 * requested_days
        /\ \E j \in 0 .. Len(AllDates) :
              /\ solcast_keys = SubSeq(AllDates, 2 + j, Len(AllDates) - 1 - j)
              /\ j > 0 => Len(AllDates) - 2 * j > 2 * requested_days

\* 7 dates and days = 1: 5 dates are left without the first and the last, and
\* two rounds leave the date in the middle
C8_Witness ==
    /\ Aggregation
    /\ requested_days = 1
    /\ AllDates = <<1, 2, 3, 4, 5, 6, 7>>
    /\ solcast_keys = <<4>>

\* there are 5 dates and days = 3: the 3 dates in the middle are retained
C8_Example ==
    (Aggregation /\ requested_days = 3 /\ Len(AllDates) = 5)
    => solcast_keys = SubSeq(AllDates, 2, 4)

RECURSIVE KwhOfDates(_)
\* the sum of the kWh of a set of dates of the daily table
KwhOfDates(D) ==
    IF D = {} THEN FracOfInt(0)
    ELSE LET d == CHOOSE d \in D : TRUE
         IN  FracAdd(daily[d]["kwh"], KwhOfDates(D \ {d}))

C10_ForecastFlag ==
    Aggregation =>
        \A date \in DOMAIN daily :
            daily[date]["forecast"] <=>
                \E x \in Places : data_sets[x[1]] = "forecasts" /\ At(x).date = date

\* a date with a forecast of the site r1 and an estimated actual of the site r2
\* at another half hour: the flag of the date is true and its kWh are those of
\* both samples
C10_Witness ==
    /\ Aggregation
    /\ data["forecasts"]["r1"] = <<<<Sample(2, "00:30", <<3>>)>>>>
    /\ data["estimated_actuals"]["r2"] = <<<<Sample(2, "01:00", <<3>>)>>>>
    /\ daily[2]["forecast"]
    /\ daily[2]["kwh"] = FracOfInt(3)

=============================================================================
